---- MODULE Spec2Model ----
(***************************************************************************)
(* A model of the AMP signed-exchange packager (src/main.go): the URL      *)
(* matcher, the configuration loader, the packaging handler and the        *)
(* certificate publisher.  Strings are TLA+ strings; the library calls the *)
(* program makes on them (regexp, net/url, textproto, base64, path) are    *)
(* computed character by character on the subset of their input language  *)
(* that the model's inputs are drawn from.                                 *)
(***************************************************************************)
EXTENDS Integers, Sequences, FiniteSets, TLC

\* ------------------------------------------------------------------------
\* Strings
\* ------------------------------------------------------------------------

\* In with its parameter bound to v: LET x == v IN ..., the value v computed once.
Let(v, In(_)) == In(v)

\* s[a-1:b] clipped to the string (the empty string when there is none).
Sub(s, a, b) ==
  LET lo == IF a < 1 THEN 1 ELSE a
      hi == IF b > Len(s) THEN Len(s) ELSE b
  IN IF lo > hi THEN "" ELSE SubSeq(s, lo, hi)

\* The character at position i, "" past the end.
Ch(s, i) == IF 1 <= i /\ i <= Len(s) THEN SubSeq(s, i, i) ELSE ""

MinOf(S) == CHOOSE m \in S : \A n \in S : m <= n

MaxOf(S) == CHOOSE m \in S : \A n \in S : n <= m

\* strings.Index(s[from-1:], sub), as a 1-based position in s; 0 when absent.
IndexFrom(s, sub, from) ==
  LET I == {i \in from..(Len(s) - Len(sub) + 1) : SubSeq(s, i, i + Len(sub) - 1) = sub}
  IN IF I = {} THEN 0 ELSE MinOf(I)

LastIndex(s, sub) ==
  LET I == {i \in 1..(Len(s) - Len(sub) + 1) : SubSeq(s, i, i + Len(sub) - 1) = sub}
  IN IF I = {} THEN 0 ELSE MaxOf(I)

HasPrefix(s, p) == Len(s) >= Len(p) /\ SubSeq(s, 1, Len(p)) = p

HasSuffix(s, p) == Len(s) >= Len(p) /\ SubSeq(s, Len(s) - Len(p) + 1, Len(s)) = p

LowerAlphabet == "abcdefghijklmnopqrstuvwxyz"

UpperAlphabet == "ABCDEFGHIJKLMNOPQRSTUVWXYZ"

Digits == "0123456789"

\* unicode.ToLower and unicode.ToUpper on the ASCII letters, as tables.
LowerOf ==
  [c \in {SubSeq(UpperAlphabet, i, i) : i \in 1..26} |->
     LET i == CHOOSE k \in 1..26 : c = SubSeq(UpperAlphabet, k, k) IN SubSeq(LowerAlphabet, i, i)]

UpperOf ==
  [c \in {SubSeq(LowerAlphabet, i, i) : i \in 1..26} |->
     LET i == CHOOSE k \in 1..26 : c = SubSeq(LowerAlphabet, k, k) IN SubSeq(UpperAlphabet, i, i)]

DigitChars == {SubSeq(Digits, i, i) : i \in 1..10}

IsLetter(c) == c \in DOMAIN LowerOf \/ c \in DOMAIN UpperOf

IsDigit(c) == c \in DigitChars

ToLowerCh(c) == IF c \in DOMAIN LowerOf THEN LowerOf[c] ELSE c

ToUpperCh(c) == IF c \in DOMAIN UpperOf THEN UpperOf[c] ELSE c

RECURSIVE ToLower(_)
ToLower(s) == IF s = "" THEN "" ELSE ToLowerCh(Ch(s, 1)) \o ToLower(Tail(s))

\* ------------------------------------------------------------------------
\* regexp (Go RE2 syntax, Perl flags), on the subset: literals, ".", "*",
\* "|", groups "(...)" and "(?:...)", "\A", "\z", "\Q...\E" and escaped
\* punctuation.  Classes, counted repetition and flags are not drawn.
\* ------------------------------------------------------------------------

ReFail(i) == [ok |-> FALSE, re |-> <<"empty">>, pos |-> i]

ReOk(r, i) == [ok |-> TRUE, re |-> r, pos |-> i]

RECURSIVE QuoteLits(_)
\* The literals of a \Q...\E body.
QuoteLits(lit) ==
  IF lit = "" THEN <<"empty">>
  ELSE <<"cat", <<"lit", Ch(lit, 1)>>, QuoteLits(Tail(lit))>>

RECURSIVE ParseAlt(_, _)
RECURSIVE ParseCat(_, _)

\* One atom of the pattern t at position i.
ParseAtom(t, i) ==
  Let(Ch(t, i), LAMBDA c :
    IF c = "(" THEN
      Let(ParseAlt(t, IF Sub(t, i + 1, i + 2) = "?:" THEN i + 3 ELSE i + 1), LAMBDA r :
        IF ~r.ok THEN r
        ELSE IF r.pos <= Len(t) /\ Ch(t, r.pos) = ")" THEN ReOk(r.re, r.pos + 1)
        ELSE ReFail(r.pos))                       \* missing closing )
    ELSE IF c = "\\" THEN
      IF i = Len(t) THEN ReFail(i)                \* trailing backslash
      ELSE Let(Ch(t, i + 1), LAMBDA e :
        IF e = "A" THEN ReOk(<<"bot">>, i + 2)
        ELSE IF e = "z" THEN ReOk(<<"eot">>, i + 2)
        ELSE IF e = "Q" THEN
          \* \Q ... \E: the ... is always literals; without \E it runs to the end.
          Let(IndexFrom(t, "\\E", i + 2), LAMBDA k :
            IF k = 0 THEN ReOk(QuoteLits(Sub(t, i + 2, Len(t))), Len(t) + 1)
            ELSE ReOk(QuoteLits(Sub(t, i + 2, k - 1)), k + 2))
        ELSE IF IsLetter(e) \/ IsDigit(e) THEN ReFail(i)   \* invalid escape
        ELSE ReOk(<<"lit", e>>, i + 2))
    ELSE IF c = "." THEN ReOk(<<"any">>, i + 1)
    ELSE IF c = "*" THEN ReFail(i)                \* missing argument to repetition
    ELSE ReOk(<<"lit", c>>, i + 1))

\* An atom and its repetition operator.
ParseRep(t, i) ==
  Let(ParseAtom(t, i), LAMBDA a :
    IF ~a.ok THEN a
    ELSE IF a.pos <= Len(t) /\ Ch(t, a.pos) = "*" THEN
      IF a.pos + 1 <= Len(t) /\ Ch(t, a.pos + 1) = "*"
      THEN ReFail(a.pos + 1)                      \* invalid nested repetition
      ELSE ReOk(<<"star", a.re>>, a.pos + 1)
    ELSE a)

\* A concatenation: atoms up to "|", ")" or the end.
ParseCat(t, i) ==
  IF i > Len(t) \/ Ch(t, i) = "|" \/ Ch(t, i) = ")" THEN ReOk(<<"empty">>, i)
  ELSE Let(ParseRep(t, i), LAMBDA a :
    IF ~a.ok THEN a
    ELSE Let(ParseCat(t, a.pos), LAMBDA b :
      IF ~b.ok THEN b ELSE ReOk(<<"cat", a.re, b.re>>, b.pos)))

\* An alternation of concatenations.
ParseAlt(t, i) ==
  Let(ParseCat(t, i), LAMBDA a :
    IF ~a.ok THEN a
    ELSE IF a.pos <= Len(t) /\ Ch(t, a.pos) = "|" THEN
      Let(ParseAlt(t, a.pos + 1), LAMBDA b :
        IF ~b.ok THEN b ELSE ReOk(<<"alt", a.re, b.re>>, b.pos))
    ELSE a)

\* regexp.Compile: the whole text must be consumed (a stray ")" is an error).
Compile(t) ==
  Let(ParseAlt(t, 1), LAMBDA r :
    IF r.ok /\ r.pos = Len(t) + 1 THEN r ELSE ReFail(r.pos))

RECURSIVE Ends(_, _, _)
RECURSIVE StarEnds(_, _, _)

\* The positions at which a match of re that starts at position i of s can end.
Ends(re, s, i) ==
  CASE re[1] = "empty" -> {i}
    [] re[1] = "lit"   -> IF i <= Len(s) /\ Ch(s, i) = re[2] THEN {i + 1} ELSE {}
    [] re[1] = "any"   -> IF i <= Len(s) /\ Ch(s, i) # "\n" THEN {i + 1} ELSE {}
    [] re[1] = "bot"   -> IF i = 1 THEN {i} ELSE {}
    [] re[1] = "eot"   -> IF i = Len(s) + 1 THEN {i} ELSE {}
    [] re[1] = "cat"   -> UNION {Ends(re[3], s, k) : k \in Ends(re[2], s, i)}
    [] re[1] = "alt"   -> Ends(re[2], s, i) \cup Ends(re[3], s, i)
    [] re[1] = "star"  -> StarEnds(re[2], s, {i})

StarEnds(r, s, S) ==
  Let(S \cup UNION {Ends(r, s, k) : k \in S}, LAMBDA N :
    IF N = S THEN S ELSE StarEnds(r, s, N))

\* regexp.MatchString(pattern, s): (matched, err).  The match is a search:
\* it may start and end anywhere in s.
MatchString(pattern, s) ==
  Let(Compile(pattern), LAMBDA c :
    IF ~c.ok THEN [matched |-> FALSE, err |-> TRUE]
    ELSE [matched |-> \E i \in 1..(Len(s) + 1) : Ends(c.re, s, i) # {}, err |-> FALSE])

\* The pattern, read on its own, matches the whole of s.
WholeMatch(pattern, s) ==
  Let(Compile(pattern), LAMBDA c : c.ok /\ (Len(s) + 1) \in Ends(c.re, s, 1))

\* ------------------------------------------------------------------------
\* net/url: Parse, IsAbs, EscapedPath.  Of the percent-escapes only %20 and
\* %2F are decoded; any other "%" is read as an invalid escape.
\* ------------------------------------------------------------------------

NoUser == [present |-> FALSE, username |-> ""]

EmptyURL ==
  [Scheme |-> "", Opaque |-> "", User |-> NoUser, Host |-> "",
   Path |-> "", RawPath |-> "", RawQuery |-> ""]

\* split(s, sep, cutc = true): the text before the first sep and the text after it.
SplitAt(s, sep) ==
  Let(IndexFrom(s, sep, 1), LAMBDA i :
    IF i = 0 THEN <<s, "">> ELSE <<Sub(s, 1, i - 1), Sub(s, i + Len(sep), Len(s))>>)

RECURSIVE SchemeEnd(_, _)
\* getscheme: 0 when the text has no scheme, -1 for "missing protocol scheme",
\* else the position of the colon that ends the scheme.
SchemeEnd(rawurl, i) ==
  IF i > Len(rawurl) THEN 0
  ELSE Let(Ch(rawurl, i), LAMBDA c :
    IF IsLetter(c) THEN SchemeEnd(rawurl, i + 1)
    ELSE IF IsDigit(c) \/ c \in {"+", "-", "."} THEN
      IF i = 1 THEN 0 ELSE SchemeEnd(rawurl, i + 1)
    ELSE IF c = ":" THEN (IF i = 1 THEN -1 ELSE i)
    ELSE 0)

RECURSIVE Unescape(_)
\* unescape(s, encodePath): [err, s].
Unescape(s) ==
  Let(IndexFrom(s, "%", 1), LAMBDA i :
    IF i = 0 THEN [err |-> FALSE, s |-> s]
    ELSE Let(Sub(s, i + 1, i + 2), LAMBDA code :
      IF code \notin {"20", "2F"} THEN [err |-> TRUE, s |-> ""]
      ELSE Let(Unescape(Sub(s, i + 3, Len(s))), LAMBDA rest :
        [err |-> rest.err,
         s |-> Sub(s, 1, i - 1) \o (IF code = "20" THEN " " ELSE "/") \o rest.s])))

\* shouldEscape(c, encodePath), for the characters the inputs are made of.
ShouldEscapePath(c) == c \in {" ", "?", "#", "%", "\"", "<", ">"}

\* The first position of s that holds one of the characters, 0 when none does.
FirstOf(s, chars) ==
  Let({i \in 1..Len(s) : Ch(s, i) \in chars}, LAMBDA I : IF I = {} THEN 0 ELSE MinOf(I))

PercentCode(c) ==
  CASE c = " " -> "%20" [] c = "?" -> "%3F" [] c = "#" -> "%23" [] c = "%" -> "%25"
    [] c = "\"" -> "%22" [] c = "<" -> "%3C" [] c = ">" -> "%3E" [] c = "/" -> "%2F"
    [] OTHER -> c

RECURSIVE EscapePath(_)
\* escape(s, encodePath).
EscapePath(s) ==
  Let(FirstOf(s, {" ", "?", "#", "%", "\"", "<", ">"}), LAMBDA i :
    IF i = 0 THEN s
    ELSE Sub(s, 1, i - 1) \o PercentCode(Ch(s, i)) \o EscapePath(Sub(s, i + 1, Len(s))))

\* validEncoded(s, encodePath).
ValidEncoded(s) ==
  \A i \in 1..Len(s) : \E c \in {Ch(s, i)} : c = "%" \/ ~ShouldEscapePath(c)

\* parseHost fails on a character that may not appear in a host name.
ValidHost(host) == \A i \in 1..Len(host) : Ch(host, i) \notin {" ", "%", "<", ">", "\""}

\* parseAuthority: [err, User, Host].
ParseAuthority(authority) ==
  Let(LastIndex(authority, "@"), LAMBDA i :
    Let(IF i = 0 THEN authority ELSE Sub(authority, i + 1, Len(authority)), LAMBDA host :
      IF ~ValidHost(host) THEN [err |-> TRUE, User |-> NoUser, Host |-> ""]
      ELSE IF i = 0 THEN [err |-> FALSE, User |-> NoUser, Host |-> host]
      ELSE [err |-> FALSE,
            User |-> [present |-> TRUE,
                      username |-> SplitAt(Sub(authority, 1, i - 1), ":")[1]],
            Host |-> host]))

\* URL.setPath: [err, Path, RawPath].
SetPath(p) ==
  Let(Unescape(p), LAMBDA path :
    IF path.err THEN [err |-> TRUE, Path |-> "", RawPath |-> ""]
    ELSE [err |-> FALSE, Path |-> path.s,
          RawPath |-> IF EscapePath(path.s) = p THEN "" ELSE p])

UrlErr == [err |-> TRUE, url |-> EmptyURL]

\* url.Parse: [err, url].  The fragment is cut off first.
UrlParse(rawurl) ==
  Let(SplitAt(rawurl, "#")[1], LAMBDA u :
  Let(SchemeEnd(u, 1), LAMBDA colon :
    IF u = "*" THEN [err |-> FALSE, url |-> [EmptyURL EXCEPT !.Path = "*"]]
    ELSE IF colon = -1 THEN UrlErr              \* missing protocol scheme
    ELSE
      Let(ToLower(Sub(u, 1, colon - 1)), LAMBDA scheme :
      Let(SplitAt(IF colon = 0 THEN u ELSE Sub(u, colon + 1, Len(u)), "?"), LAMBDA q :
      Let(q[1], LAMBDA rest :
        IF ~HasPrefix(rest, "/") /\ scheme # "" THEN
          [err |-> FALSE,
           url |-> [EmptyURL EXCEPT !.Scheme = scheme, !.Opaque = rest, !.RawQuery = q[2]]]
        ELSE IF ~HasPrefix(rest, "/")
                /\ Let(IndexFrom(rest, ":", 1), LAMBDA c :
                   Let(IndexFrom(rest, "/", 1), LAMBDA sl : c # 0 /\ (sl = 0 \/ c < sl)))
        THEN UrlErr                             \* first path segment contains a colon
        ELSE
          Let((scheme # "" \/ ~HasPrefix(rest, "///")) /\ HasPrefix(rest, "//"), LAMBDA hasAuth :
          Let(Sub(rest, 3, Len(rest)), LAMBDA afterSlashes :
          Let(IndexFrom(afterSlashes, "/", 1), LAMBDA slash :
          Let(IF ~hasAuth THEN [err |-> FALSE, User |-> NoUser, Host |-> ""]
              ELSE ParseAuthority(IF slash = 0 THEN afterSlashes
                                  ELSE Sub(afterSlashes, 1, slash - 1)), LAMBDA auth :
          Let(SetPath(IF ~hasAuth THEN rest
                      ELSE IF slash = 0 THEN ""
                      ELSE Sub(afterSlashes, slash, Len(afterSlashes))), LAMBDA sp :
            IF auth.err \/ sp.err THEN UrlErr
            ELSE [err |-> FALSE,
                  url |-> [Scheme |-> scheme, Opaque |-> "", User |-> auth.User,
                           Host |-> auth.Host, Path |-> sp.Path, RawPath |-> sp.RawPath,
                           RawQuery |-> q[2]]]))))))))))

IsAbs(url) == url.Scheme # ""

\* URL.EscapedPath.
EscapedPath(url) ==
  IF url.RawPath # "" /\ ValidEncoded(url.RawPath)
     /\ Let(Unescape(url.RawPath), LAMBDA un : ~un.err /\ un.s = url.Path)
  THEN url.RawPath
  ELSE IF url.Path = "*" THEN "*"
  ELSE EscapePath(url.Path)

\* ------------------------------------------------------------------------
\* net/textproto and net/http.Header
\* ------------------------------------------------------------------------

\* validHeaderFieldByte: the token characters.
IsTokenCh(c) == IsLetter(c) \/ IsDigit(c) \/ c \in {"-", "_", ".", "!", "#", "$", "&", "*", "+", "^", "|", "~"}

RECURSIVE CanonicalFrom(_, _)
CanonicalFrom(s, upper) ==
  IF s = "" THEN ""
  ELSE Let(IF upper THEN ToUpperCh(Ch(s, 1)) ELSE ToLowerCh(Ch(s, 1)), LAMBDA c :
    c \o CanonicalFrom(Tail(s), c = "-"))

\* textproto.CanonicalMIMEHeaderKey: a key that is not a token is left as it is.
CanonicalMIMEHeaderKey(s) ==
  IF \A i \in 1..Len(s) : IsTokenCh(Ch(s, i)) THEN CanonicalFrom(s, TRUE) ELSE s

\* A Header is a function from keys to the sequence of their values.
NoHeader == [k \in {} |-> <<>>]

\* Header.Add.
HeaderAdd(h, key, value) ==
  Let(CanonicalMIMEHeaderKey(key), LAMBDA k :
    [x \in DOMAIN h \cup {k} |->
       IF x = k THEN (IF k \in DOMAIN h THEN Append(h[k], value) ELSE <<value>>)
       ELSE h[x]])

\* Header.Get: the first value of the key, "" when there is none.
HeaderGet(h, key) ==
  Let(CanonicalMIMEHeaderKey(key), LAMBDA k :
    IF k \in DOMAIN h /\ Len(h[k]) > 0 THEN h[k][1] ELSE "")

\* Header.Del.
HeaderDel(h, key) ==
  [x \in DOMAIN h \ {CanonicalMIMEHeaderKey(key)} |-> h[x]]

RECURSIVE ReadMIMEHeader(_)
\* The Header the HTTP client builds from the header lines of a response,
\* each a <<name, value>> pair, in wire order.
ReadMIMEHeader(lines) ==
  IF lines = <<>> THEN NoHeader
  ELSE HeaderAdd(ReadMIMEHeader(SubSeq(lines, 1, Len(lines) - 1)),
                 lines[Len(lines)][1], lines[Len(lines)][2])

\* ------------------------------------------------------------------------
\* encoding/base64 and path
\* ------------------------------------------------------------------------

EncodeURL == "ABCDEFGHIJKLMNOPQRSTUVWXYZabcdefghijklmnopqrstuvwxyz0123456789-_"

EncodeStd == "ABCDEFGHIJKLMNOPQRSTUVWXYZabcdefghijklmnopqrstuvwxyz0123456789+/"

B64(alphabet, v) == SubSeq(alphabet, v + 1, v + 1)

RECURSIVE EncodeToString(_, _)
\* Encoding.EncodeToString with "=" padding.
EncodeToString(alphabet, src) ==
  IF Len(src) = 0 THEN ""
  ELSE IF Len(src) = 1 THEN
    B64(alphabet, src[1] \div 4) \o B64(alphabet, (src[1] % 4) * 16) \o "=="
  ELSE IF Len(src) = 2 THEN
    B64(alphabet, src[1] \div 4) \o B64(alphabet, (src[1] % 4) * 16 + src[2] \div 16)
      \o B64(alphabet, (src[2] % 16) * 4) \o "="
  ELSE
    B64(alphabet, src[1] \div 4) \o B64(alphabet, (src[1] % 4) * 16 + src[2] \div 16)
      \o B64(alphabet, (src[2] % 16) * 4 + src[3] \div 64) \o B64(alphabet, src[3] % 64)
      \o EncodeToString(alphabet, SubSeq(src, 4, Len(src)))

RECURSIVE SplitSlash(_)
\* The elements of a path between its slashes.
SplitSlash(p) ==
  Let(IndexFrom(p, "/", 1), LAMBDA i :
    IF i = 0 THEN <<p>> ELSE <<Sub(p, 1, i - 1)>> \o SplitSlash(Sub(p, i + 1, Len(p))))

RECURSIVE CleanElems(_, _, _)
\* path.Clean on the elements: "" and "." are dropped, ".." removes the
\* element before it (at the root it is dropped).
CleanElems(elems, out, rooted) ==
  IF elems = <<>> THEN out
  ELSE LET e == Head(elems) IN
    IF e = "" \/ e = "." THEN CleanElems(Tail(elems), out, rooted)
    ELSE IF e = ".." THEN
      IF Len(out) > 0 /\ out[Len(out)] # ".."
      THEN CleanElems(Tail(elems), SubSeq(out, 1, Len(out) - 1), rooted)
      ELSE IF rooted THEN CleanElems(Tail(elems), out, rooted)
      ELSE CleanElems(Tail(elems), Append(out, e), rooted)
    ELSE CleanElems(Tail(elems), Append(out, e), rooted)

RECURSIVE JoinWith(_, _)
\* strings.Join.
JoinWith(elems, sep) ==
  IF elems = <<>> THEN ""
  ELSE IF Len(elems) = 1 THEN elems[1]
  ELSE elems[1] \o sep \o JoinWith(Tail(elems), sep)

\* path.Clean.
PathClean(p) ==
  IF p = "" THEN "."
  ELSE Let(HasPrefix(p, "/"), LAMBDA rooted :
       Let(JoinWith(CleanElems(SplitSlash(p), <<>>, rooted), "/"), LAMBDA out :
         IF rooted THEN "/" \o out ELSE IF out = "" THEN "." ELSE out))

\* path.Join: the non-empty elements joined by slashes, then cleaned.
PathJoin(elems) ==
  LET nonEmpty == SelectSeq(elems, LAMBDA e : e # "") IN
  IF nonEmpty = <<>> THEN "" ELSE PathClean(JoinWith(nonEmpty, "/"))

\* ------------------------------------------------------------------------
\* The program: constants and errors
\* ------------------------------------------------------------------------

acceptablePackagerSchemes == {"http", "https"}

certUrlPrefix == "amppkg/cert"

\* The ten stateful response headers, as the source spells them.
statefulResponseHeaders ==
  {"Authentication-Control", "Authentication-Info", "Optional-WWW-Authenticate",
   "Proxy-Authenticate", "Proxy-Authentication-Info", "Sec-WebSocket-Accept",
   "Set-Cookie", "Set-Cookie2", "SetProfile", "WWW-Authenticate"}

maxBodyLength == 4 * 1048576

miRecordSize == 4096

StatusOK == 200

StatusPartialContent == 206

StatusNotModified == 304

StatusBadRequest == 400

StatusNotFound == 404

StatusInternalServerError == 500

StatusBadGateway == 502

\* An *httpError; nil is NoHttpError.  InternalMsg goes to the log only.
newHttpError(statusCode, msg) == [nil |-> FALSE, InternalMsg |-> msg, StatusCode |-> statusCode]

NoHttpError == [nil |-> TRUE, InternalMsg |-> "", StatusCode |-> 0]

ExternalMsg(e) ==
  CASE e.StatusCode = StatusBadRequest -> "400 bad request"
    [] e.StatusCode = StatusInternalServerError -> "500 internal server error"
    [] e.StatusCode = StatusBadGateway -> "502 bad gateway"
    [] OTHER -> ""

\* ------------------------------------------------------------------------
\* http.ResponseWriter: the handler's header map, what went out on the wire
\* (the status and the headers as they were when the status was written, the
\* body), and the calls the handler made on it.
\* ------------------------------------------------------------------------

HeaderFields == {"Content-Type", "ETag", "X-Content-Type-Options"}

NewResponseWriter ==
  [wroteHeader |-> FALSE, status |-> 0,
   header |-> [f \in HeaderFields |-> ""], sent |-> [f \in HeaderFields |-> ""],
   body |-> "", calls |-> <<>>]

\* ResponseWriter.WriteHeader: only the first call counts.
WriteHeader(w, code) ==
  IF w.wroteHeader THEN w
  ELSE [w EXCEPT !.wroteHeader = TRUE, !.status = code, !.sent = w.header]

\* ResponseWriter.Write: writes the status 200 first if none was written.
WriteBytes(w, b) == [WriteHeader(w, StatusOK) EXCEPT !.body = @ \o b]

\* http.Error: a plain-text reply of the message as one line.
HttpErrorReply(w, msg, code) ==
  LET w1 == [w EXCEPT !.header["Content-Type"] = "text/plain; charset=utf-8",
                      !.header["X-Content-Type-Options"] = "nosniff"]
  IN WriteBytes(WriteHeader(w1, code), msg \o "\n")

Called(w, name) == [w EXCEPT !.calls = Append(@, name)]

\* http.Error, as a call of the handler.
HttpError(w, msg, code) == Called(HttpErrorReply(w, msg, code), "Error")

\* resp.Header().Set, as a call of the handler.
HeaderSet(w, field, value) == Called([w EXCEPT !.header[field] = value], "Header.Set")

\* resp.Write, as a call of the handler.
Write(w, b) == Called(WriteBytes(w, b), "Write")

\* http.NotFound.
NotFound(w) == Called(HttpErrorReply(w, "404 page not found", StatusNotFound), "NotFound")

\* httpError.LogAndRespond (the log is not modelled).
LogAndRespond(e, w) == HttpError(w, ExternalMsg(e), e.StatusCode)

\* ------------------------------------------------------------------------
\* Certificates and the certificate publisher
\* ------------------------------------------------------------------------

Sha256Size == 32

RECURSIVE SumBytes(_)
SumBytes(b) == IF b = <<>> THEN 0 ELSE Head(b) + SumBytes(Tail(b))

\* sha256.Sum256 stands as a fixed function from the bytes to a digest of
\* Sha256Size bytes (the digest itself cannot be computed here).
Sum256(raw) ==
  [i \in 1..Sha256Size |-> (SumBytes(raw) * (2 * i + 1) + 13 * i + Len(raw)) % 256]

\* A certificate is its DER bytes (cert.Raw).
certName(cert) == EncodeToString(EncodeURL, Sum256(cert))

RECURSIVE CborChain(_)
\* certurl.CertificateMessageFromPEM stands as a text built of every
\* certificate of the chain.
CborChain(pem) ==
  IF pem = <<>> THEN "" ELSE "{" \o EncodeToString(EncodeStd, Head(pem)) \o "}" \o CborChain(Tail(pem))

\* newCertCache: [err, certName, certMessage].
newCertCache(cert, pemContent) ==
  IF pemContent = <<>> THEN [err |-> TRUE, certName |-> "", certMessage |-> ""]
  ELSE [err |-> FALSE, certName |-> certName(cert),
        certMessage |-> "cert-chain+cbor" \o CborChain(pemContent)]

\* http.ServeContent of the content with no name and no modification time:
\* If-None-Match against the ETag of the header map gives 304 with no body,
\* a range "bytes=0-0" gives 206 with the first byte, else 200 with all of it.
ServeContent(w, ifNoneMatch, range, content) ==
  IF ifNoneMatch # "" /\ ifNoneMatch = w.header["ETag"] THEN
    Called(WriteHeader([w EXCEPT !.header["Content-Type"] = ""], StatusNotModified), "ServeContent")
  ELSE IF range = "bytes=0-0" /\ Len(content) > 0 THEN
    Called(WriteBytes(WriteHeader(w, StatusPartialContent), Sub(content, 1, 1)), "ServeContent")
  ELSE Called(WriteBytes(WriteHeader(w, StatusOK), content), "ServeContent")

\* A variant of CertCache.ServeHTTP that serves every path under the prefix.
CertCacheServePrefix(this, resp, req) ==
  IF HasPrefix(req.Path, PathJoin(<<"/", certUrlPrefix>>)) THEN
    ServeContent(HeaderSet(HeaderSet(resp, "Content-Type", "application/tls-cert-chain"),
                           "ETag", "\"" \o this.certName \o "\""),
                 req.IfNoneMatch, req.Range, this.certMessage)
  ELSE NotFound(resp)

\* CertCache.ServeHTTP: the ResponseWriter after the call.
CertCacheServe(this, resp, req) ==
  IF req.Path = PathJoin(<<"/", certUrlPrefix, this.certName>>) THEN
    ServeContent(HeaderSet(HeaderSet(resp, "Content-Type", "application/tls-cert-chain"),
                           "ETag", "\"" \o this.certName \o "\""),
                 req.IfNoneMatch, req.Range, this.certMessage)
  ELSE NotFound(resp)

\* ------------------------------------------------------------------------
\* The URL matcher
\* ------------------------------------------------------------------------

\* A *string: nil, or a pointer to v.
NilStr == [nil |-> TRUE, v |-> ""]

Ptr(s) == [nil |-> FALSE, v |-> s]

\* parseUrl: [err, url].
parseUrl(rawUrl, name) ==
  IF rawUrl = "" THEN
    [err |-> newHttpError(StatusBadRequest, name \o " URL is unspecified"), url |-> EmptyURL]
  ELSE Let(UrlParse(rawUrl), LAMBDA ret :
    IF ret.err THEN
      [err |-> newHttpError(StatusBadRequest, "Error parsing " \o name \o " url"),
       url |-> EmptyURL]
    ELSE IF ~IsAbs(ret.url) THEN
      [err |-> newHttpError(StatusBadRequest, name \o " url is relative"), url |-> EmptyURL]
    ELSE [err |-> NoHttpError, url |-> ret.url])

\* regexpFullMatch: the error of MatchString is dropped, matches is then false.
regexpFullMatch(pattern, test) ==
  LET fullRe == "\\A(?:" \o pattern \o ")\\z"
  IN MatchString(fullRe, test).matched

urlMatches(url, pattern) ==
  IF ~\E i \in 1..Len(pattern.Scheme) : url.Scheme = pattern.Scheme[i] THEN FALSE
  ELSE IF url.Opaque # "" THEN FALSE
  ELSE IF url.User.present THEN FALSE
  ELSE IF url.Host # pattern.Domain THEN FALSE
  ELSE Let(EscapedPath(url), LAMBDA escapedPath :
    IF ~regexpFullMatch(pattern.PathRE.v, escapedPath) THEN FALSE
    ELSE IF \E i \in 1..Len(pattern.PathExcludeRE) :
              regexpFullMatch(pattern.PathExcludeRE[i], escapedPath) THEN FALSE
    ELSE IF ~regexpFullMatch(pattern.QueryRE.v, url.RawQuery) THEN FALSE
    ELSE TRUE)

\* A variant of the loop of parseUrls that returns at the last matching URLSet.
FirstMatchLast(fetchU, signU, urlSets) ==
  Let({i \in 1..Len(urlSets) :
         urlMatches(fetchU, urlSets[i].Fetch) /\ urlMatches(signU, urlSets[i].Sign)},
      LAMBDA M : IF M = {} THEN 0 ELSE MaxOf(M))

\* The index of the URLSet the loop of parseUrls returns at, 0 when it ends
\* without returning.
FirstMatch(fetchU, signU, urlSets) ==
  Let({i \in 1..Len(urlSets) :
         urlMatches(fetchU, urlSets[i].Fetch) /\ urlMatches(signU, urlSets[i].Sign)},
      LAMBDA M : IF M = {} THEN 0 ELSE MinOf(M))

\* parseUrls: [signUrl, errorOnStatefulHeaders, err].
parseUrls(fetch, sign, urlSets) ==
  Let(parseUrl(fetch, "fetch"), LAMBDA f :
    IF ~f.err.nil
    THEN [signUrl |-> EmptyURL, errorOnStatefulHeaders |-> FALSE, err |-> f.err]
    ELSE Let(parseUrl(sign, "sign"), LAMBDA g :
      IF ~g.err.nil
      THEN [signUrl |-> EmptyURL, errorOnStatefulHeaders |-> FALSE, err |-> g.err]
      ELSE Let(FirstMatch(f.url, g.url, urlSets), LAMBDA i :
        IF i # 0
        THEN [signUrl |-> g.url,
              errorOnStatefulHeaders |-> urlSets[i].Fetch.ErrorOnStatefulHeaders,
              err |-> NoHttpError]
        ELSE [signUrl |-> EmptyURL, errorOnStatefulHeaders |-> FALSE,
              err |-> newHttpError(StatusBadRequest, "fetch/sign URLs do not match config")])))

\* ------------------------------------------------------------------------
\* The configuration
\* ------------------------------------------------------------------------

dotStarRegexp == ".*"

allowedFetchSchemes == {"http", "https"}

allowedSignSchemes == {"https"}

regexpCompileOk(pattern) == Compile(pattern).ok

\* validateURLPattern: [err, pattern], the pattern with its defaults set.
\* keys is the order in which the map of allowed schemes is ranged over.
validateURLPattern(pattern, allowedSchemes, keys) ==
  Let(IF Len(pattern.Scheme) = 0
      THEN [pattern EXCEPT !.Scheme = SelectSeq(keys, LAMBDA k : k \in allowedSchemes)]
      ELSE pattern, LAMBDA p1 :
  Let(IF p1.PathRE.nil THEN [p1 EXCEPT !.PathRE = Ptr(dotStarRegexp)] ELSE p1, LAMBDA p2 :
  Let(IF p2.QueryRE.nil THEN [p2 EXCEPT !.QueryRE = Ptr(dotStarRegexp)] ELSE p2, LAMBDA p3 :
    IF \E i \in 1..Len(pattern.Scheme) : pattern.Scheme[i] \notin allowedSchemes
    THEN [err |-> TRUE, pattern |-> p1]
    ELSE IF pattern.Domain = "" THEN [err |-> TRUE, pattern |-> p1]
    ELSE IF ~pattern.PathRE.nil /\ ~regexpCompileOk(pattern.PathRE.v)
    THEN [err |-> TRUE, pattern |-> p1]
    ELSE IF \E i \in 1..Len(pattern.PathExcludeRE) : ~regexpCompileOk(pattern.PathExcludeRE[i])
    THEN [err |-> TRUE, pattern |-> p2]
    ELSE IF ~pattern.QueryRE.nil /\ ~regexpCompileOk(pattern.QueryRE.v)
    THEN [err |-> TRUE, pattern |-> p2]
    ELSE [err |-> FALSE, pattern |-> p3])))

\* A variant of the round of readConfig over a URLSet that allows a Sign
\* pattern the schemes of a Fetch pattern.
validateURLSetAnySign(set, keys) ==
  Let(validateURLPattern(set.Fetch, allowedFetchSchemes, keys), LAMBDA f :
  Let(validateURLPattern(set.Sign, allowedFetchSchemes, keys), LAMBDA g :
    [err |-> f.err \/ g.err \/ set.Sign.ErrorOnStatefulHeaders,
     set |-> [Fetch |-> f.pattern, Sign |-> g.pattern]]))

\* One round of the loop of readConfig over the URLSets: [err, set].
validateURLSet(set, keys) ==
  Let(validateURLPattern(set.Fetch, allowedFetchSchemes, keys), LAMBDA f :
  Let(validateURLPattern(set.Sign, allowedSignSchemes, keys), LAMBDA g :
    [err |-> f.err \/ g.err \/ set.Sign.ErrorOnStatefulHeaders,
     set |-> [Fetch |-> f.pattern, Sign |-> g.pattern]]))

\* readConfig: [err, config].  flag is the --config flag and loaded says
\* whether the file loads and unmarshals into raw.
readConfig(flag, loaded, raw, keys) ==
  IF flag = "" \/ ~loaded THEN [err |-> TRUE, config |-> raw]
  ELSE
    Let(IF raw.Port = 0 THEN [raw EXCEPT !.Port = 8080] ELSE raw, LAMBDA c1 :
    Let(IF ~HasSuffix(c1.PackagerBase, "/")
        THEN [c1 EXCEPT !.PackagerBase = @ \o "/"] ELSE c1, LAMBDA c2 :
      IF c2.CertFile = "" \/ c2.KeyFile = "" \/ c2.GoogleAPIKey = ""
      THEN [err |-> TRUE, config |-> c2]
      ELSE IF Len(c2.URLSet) = 0 THEN [err |-> TRUE, config |-> c2]
      ELSE Let([i \in 1..Len(c2.URLSet) |-> validateURLSet(c2.URLSet[i], keys)], LAMBDA sets :
        IF \E i \in 1..Len(sets) : sets[i].err THEN [err |-> TRUE, config |-> c2]
        ELSE [err |-> FALSE,
              config |-> [c2 EXCEPT !.URLSet = [i \in 1..Len(sets) |-> sets[i].set]]])))

\* ------------------------------------------------------------------------
\* The packager
\* ------------------------------------------------------------------------

\* The text of a URL with a scheme, a host, a path and no query (URL.String).
UrlString(u) == u.Scheme \o "://" \o u.Host \o EscapedPath(u)

\* newPackager: [err, packager].
newPackager(cert, key, packagerBase, urlSets) ==
  Let(UrlParse(packagerBase), LAMBDA b :
  Let(UrlParse("https://cdn.ampproject.org/null-validity"), LAMBDA v :
    [err |-> b.err \/ ~IsAbs(b.url) \/ b.url.Scheme \notin acceptablePackagerSchemes \/ v.err,
     packager |-> [cert |-> cert, key |-> key, validityUrl |-> v.url, baseUrl |-> b.url,
                   urlSets |-> urlSets]]))

RECURSIVE PathEscape(_)
\* url.PathEscape, for the characters the inputs are made of: a path segment
\* escapes the slash too.
PathEscape(s) ==
  Let(FirstOf(s, {" ", "?", "#", "%", "\"", "<", ">", "/"}), LAMBDA i :
    IF i = 0 THEN s
    ELSE Sub(s, 1, i - 1) \o PercentCode(Ch(s, i)) \o PathEscape(Sub(s, i + 1, Len(s))))

\* URL.ResolveReference for a reference that is a relative path: the path
\* replaces what follows the last slash of the base's path.
ResolveReference(base, ref) ==
  Let(EscapedPath(base), LAMBDA basePath :
  Let(SetPath(PathClean("/" \o Sub(basePath, 1, LastIndex(basePath, "/")) \o EscapedPath(ref))),
      LAMBDA sp :
    [base EXCEPT !.Path = sp.Path, !.RawPath = sp.RawPath, !.RawQuery = ref.RawQuery]))

\* Packager.genCertUrl: [err, url].
genCertUrl(this, cert) ==
  Let(PathJoin(<<certUrlPrefix, PathEscape(certName(cert))>>), LAMBDA urlPath :
  Let(UrlParse(urlPath), LAMBDA certUrl :
    IF certUrl.err THEN [err |-> TRUE, url |-> EmptyURL]
    ELSE [err |-> FALSE, url |-> ResolveReference(this.baseUrl, certUrl.url)]))

\* cachecontrol.CachableResponse with PrivateCache = false, read off the
\* Cache-Control header of a GET response with status 200: [err, reasons].
CachableResponse(header) ==
  Let(HeaderGet(header, "Cache-Control"), LAMBDA cc :
    IF IndexFrom(cc, "max-age=x", 1) # 0 THEN [err |-> TRUE, reasons |-> {}]
    ELSE [err |-> FALSE,
          reasons |-> (IF IndexFrom(cc, "private", 1) # 0 THEN {"ReasonResponsePrivate"} ELSE {})
                      \cup (IF IndexFrom(cc, "no-store", 1) # 0
                            THEN {"ReasonResponseNoStore"} ELSE {})])

\* A variant of validateFetch without the test of the status.
validateFetchAnyStatus(resp) ==
  Let(CachableResponse(resp.Header), LAMBDA c :
    IF c.err THEN newHttpError(StatusBadGateway, "Error parsing cache headers")
    ELSE IF c.reasons # {} THEN newHttpError(StatusBadGateway, "Non-cacheable response")
    ELSE NoHttpError)

\* validateFetch: the *httpError.
validateFetch(resp) ==
  IF resp.StatusCode # StatusOK THEN newHttpError(StatusBadGateway, "Non-OK fetch")
  ELSE Let(CachableResponse(resp.Header), LAMBDA c :
    IF c.err THEN newHttpError(StatusBadGateway, "Error parsing cache headers")
    ELSE IF c.reasons # {} THEN newHttpError(StatusBadGateway, "Non-cacheable response")
    ELSE NoHttpError)

\* A variant of the loop that deletes the key as the source spells it.
RECURSIVE SanitizeNoCanon(_, _, _)
SanitizeNoCanon(h, order, errorOnStatefulHeaders) ==
  IF order = <<>> THEN [err |-> FALSE, Header |-> h]
  ELSE LET header == Head(order) IN
    IF errorOnStatefulHeaders /\ HeaderGet(h, header) # ""
    THEN [err |-> TRUE, Header |-> h]
    ELSE SanitizeNoCanon([x \in DOMAIN h \ {header} |-> h[x]], Tail(order), errorOnStatefulHeaders)

\* A variant of the loop that never fails.
RECURSIVE SanitizeLenient(_, _, _)
SanitizeLenient(h, order, errorOnStatefulHeaders) ==
  IF order = <<>> THEN [err |-> FALSE, Header |-> h]
  ELSE SanitizeLenient(HeaderDel(h, Head(order)), Tail(order), errorOnStatefulHeaders)

RECURSIVE Sanitize(_, _, _)
\* The loop over statefulResponseHeaders, visited in the given order:
\* [err, Header].
Sanitize(h, order, errorOnStatefulHeaders) ==
  IF order = <<>> THEN [err |-> FALSE, Header |-> h]
  ELSE LET header == Head(order) IN
    IF errorOnStatefulHeaders /\ HeaderGet(h, header) # ""
    THEN [err |-> TRUE, Header |-> h]
    ELSE Sanitize(HeaderDel(h, header), Tail(order), errorOnStatefulHeaders)

\* ------------------------------------------------------------------------
\* Bounds and the sets the inputs are drawn from
\* ------------------------------------------------------------------------

\* The longest URLSet list of a configuration file.
MaxURLSets == 2

\* The clock is read at multiples of half a second, up to this many.
MaxClockTicks == 2

Pattern(scheme, domain, pathRE, exclude, queryRE, strict) ==
  [Scheme |-> scheme, Domain |-> domain, PathRE |-> pathRE, PathExcludeRE |-> exclude,
   QueryRE |-> queryRE, ErrorOnStatefulHeaders |-> strict]

FetchStrict == Pattern(<<"https">>, "amp.example", NilStr, <<>>, NilStr, TRUE)

FetchLoose == Pattern(<<>>, "amp.example", Ptr("/a|/b"), <<"/b">>, Ptr(".*"), FALSE)

SignHttps == Pattern(<<"https">>, "example.com", NilStr, <<>>, NilStr, FALSE)

SignDefault == Pattern(<<>>, "example.com", Ptr("/a"), <<>>, NilStr, FALSE)

\* The [[URLSet]] tables a configuration file is made of: two that
\* readConfig accepts and five it must not.
URLSetPool ==
  {[Fetch |-> FetchStrict, Sign |-> SignHttps],
   [Fetch |-> FetchLoose, Sign |-> SignDefault],
   [Fetch |-> [FetchStrict EXCEPT !.Scheme = <<"https", "ftp">>], Sign |-> SignHttps],
   [Fetch |-> FetchStrict, Sign |-> [SignHttps EXCEPT !.Scheme = <<"http">>]],
   [Fetch |-> FetchLoose, Sign |-> [SignDefault EXCEPT !.ErrorOnStatefulHeaders = TRUE]],
   [Fetch |-> [FetchLoose EXCEPT !.PathRE = Ptr("*")], Sign |-> SignHttps],
   [Fetch |-> [FetchStrict EXCEPT !.Domain = ""], Sign |-> SignHttps]}

URLSetLists == UNION {[1..n -> URLSetPool] : n \in 0..MaxURLSets}

RawConfig(list) ==
  [LocalOnly |-> FALSE, Port |-> 0, PackagerBase |-> "https://pkg.example/amp",
   CertFile |-> "cert.pem", KeyFile |-> "key.pem", GoogleAPIKey |-> "key", URLSet |-> list]

LeafA == <<48, 130, 1, 10>>

LeafB == <<48, 130, 2, 77, 9>>

\* What main reads: the flag, whether the file loads, the file's content,
\* the certificates of the CertFile and the text of the KeyFile.
Startup(config) ==
  [flagConfig |-> "amppkg.toml", loaded |-> TRUE, config |-> config,
   certPem |-> <<LeafA, LeafB>>, keyPem |-> "key"]

OneSet == <<[Fetch |-> FetchStrict, Sign |-> SignHttps]>>

StartupInputs ==
  {Startup(RawConfig(l)) : l \in URLSetLists}
  \cup {[Startup(RawConfig(OneSet)) EXCEPT !.flagConfig = ""],
        [Startup(RawConfig(OneSet)) EXCEPT !.loaded = FALSE],
        [Startup(RawConfig(OneSet)) EXCEPT !.certPem = <<>>],
        [Startup(RawConfig(OneSet)) EXCEPT !.certPem = <<LeafB>>],
        [Startup(RawConfig(OneSet)) EXCEPT !.keyPem = ""]}
  \cup {Startup([RawConfig(OneSet) EXCEPT !.CertFile = ""]),
        Startup([RawConfig(OneSet) EXCEPT !.KeyFile = ""]),
        Startup([RawConfig(OneSet) EXCEPT !.GoogleAPIKey = ""]),
        Startup([RawConfig(OneSet) EXCEPT !.Port = 8443]),
        Startup([RawConfig(OneSet) EXCEPT !.PackagerBase = "https://pkg.example/"]),
        Startup([RawConfig(OneSet) EXCEPT !.PackagerBase = "pkg.example"]),
        Startup([RawConfig(OneSet) EXCEPT !.PackagerBase = "ftp://pkg.example/"])}

\* The orders in which a range over a map of two keys can visit them.
SchemeKeyOrders == {<<"http", "https">>, <<"https", "http">>}

\* statefulResponseHeaders in the order of the source, and the orders of a
\* range over the map that the model draws: that one, its reverse, and one
\* that starts in the middle.
SourceOrder ==
  <<"Authentication-Control", "Authentication-Info", "Optional-WWW-Authenticate",
    "Proxy-Authenticate", "Proxy-Authentication-Info", "Sec-WebSocket-Accept",
    "Set-Cookie", "Set-Cookie2", "SetProfile", "WWW-Authenticate">>

HeaderOrders ==
  {SourceOrder,
   [i \in 1..Len(SourceOrder) |-> SourceOrder[Len(SourceOrder) + 1 - i]],
   [i \in 1..Len(SourceOrder) |-> SourceOrder[((i + 5) % Len(SourceOrder)) + 1]]}

FetchValues ==
  {"", ":bad", "/a", "https://amp.example/a", "http://amp.example/a",
   "https://amp.example/b", "https://u@amp.example/a"}

SignValues ==
  {"", "https://example.com/a", "http://example.com/a", "https://other.example/a"}

Response(status, lines, bodyLen) ==
  [transportErr |-> FALSE, StatusCode |-> status, lines |-> lines, bodyLen |-> bodyLen]

Public == <<"Cache-Control", "public, max-age=600">>

\* What the fetch can come back with.
UpstreamPool ==
  {[transportErr |-> TRUE, StatusCode |-> 0, lines |-> <<>>, bodyLen |-> 0],
   Response(200, <<Public, <<"Content-Type", "text/html">>>>, 18),
   Response(200, <<<<"cache-control", "public">>, <<"set-cookie", "x=1">>>>, 18),
   Response(200, <<Public, <<"Set-Cookie", "">>>>, 18),
   Response(200, <<Public, <<"SETPROFILE", "p">>, <<"X-Other", "v">>>>, 18),
   Response(200, <<<<"Set-Cookie", "">>, <<"Set-Cookie", "x=1">>, <<"X-Other", "v">>>>, 0),
   Response(200, <<Public, <<"www-authenticate", "Basic">>, <<"Content-Type", "text/html">>>>,
            maxBodyLength + 1),
   Response(200, <<<<"Cache-Control", "private">>>>, 18),
   Response(200, <<<<"Cache-Control", "no-store">>>>, 18),
   Response(200, <<<<"Cache-Control", "max-age=x">>>>, 18),
   Response(404, <<Public>>, 18),
   Response(404, <<Public, <<"Set-Cookie", "x=1">>>>, 18)}

MsPerHour == 3600 * 1000

ClockReadings == {48 * MsPerHour + k * 500 : k \in 0..MaxClockTicks}

\* time.Time.Unix, of a time in milliseconds.
Unix(t) == t \div 1000

\* ------------------------------------------------------------------------
\* State
\* ------------------------------------------------------------------------

VARIABLES
  pc,         \* "start", "exited", "idle" (serving), "responded"; "call" and "returned" for a lone call
  startup,    \* what main reads
  cfg,        \* the result of readConfig
  packager,   \* the Packager
  certCache,  \* the CertCache
  doc,        \* the packaging request being served, with all its transient objects
  crt,        \* the certificate request being served
  call,       \* the arguments of a lone call of urlMatches or parseUrls
  ret         \* its result

vars == <<pc, startup, cfg, packager, certCache, doc, crt, call, ret>>

NoConfig == [accepted |-> FALSE, config |-> RawConfig(<<>>)]

NoPackager ==
  [cert |-> <<>>, key |-> "", validityUrl |-> EmptyURL, baseUrl |-> EmptyURL, urlSets |-> <<>>]

NoCertCache == [certName |-> "", certMessage |-> ""]

NoUpstream == [transportErr |-> FALSE, StatusCode |-> 0, lines |-> <<>>, bodyLen |-> 0]

NoExchange ==
  [built |-> FALSE, requestUri |-> EmptyURL, status |-> 0, header |-> NoHeader,
   payloadLen |-> 0, miRecordSize |-> 0, signed |-> FALSE]

NoSigner == [set |-> FALSE, Date |-> 0, Expires |-> 0, CertUrl |-> "", ValidityUrl |-> ""]

\* A packaging request as it enters the handler.  lib holds what each
\* library call that can fail came back with: "", "ok" or "err".
NewRequest(fetch, sign) ==
  [active |-> TRUE, fetch |-> fetch, sign |-> sign, events |-> <<>>,
   matched |-> FALSE, signUrl |-> EmptyURL, errorOnStatefulHeaders |-> FALSE,
   fetched |-> FALSE, upstream |-> NoUpstream, Header |-> NoHeader,
   order |-> <<>>, sanitized |-> FALSE,
   lib |-> [read |-> "", build |-> "", sign |-> "", serialize |-> "", write |-> ""],
   exchange |-> NoExchange, signer |-> NoSigner, written |-> "",
   resp |-> NewResponseWriter, deferClose |-> FALSE, closes |-> 0]

NoDoc == [NewRequest("", "") EXCEPT !.active = FALSE]

NoCrt ==
  [active |-> FALSE, req |-> [Path |-> "", IfNoneMatch |-> "", Range |-> ""],
   resp |-> NewResponseWriter]

NoCall ==
  [fn |-> "", raw |-> "", url |-> EmptyURL, pattern |-> SignHttps,
   fetch |-> "", sign |-> "", urlSets |-> <<>>]

NoRet ==
  [matches |-> FALSE, signUrl |-> EmptyURL, errorOnStatefulHeaders |-> FALSE,
   err |-> NoHttpError]

\* ------------------------------------------------------------------------
\* main
\* ------------------------------------------------------------------------


\* main up to ListenAndServe: a failure at any step ends the process.
main ==
  /\ pc = "start"
  /\ \E keys \in SchemeKeyOrders :
       Let(readConfig(startup.flagConfig, startup.loaded, startup.config, keys), LAMBDA rc :
         IF rc.err THEN
           /\ pc' = "exited"
           /\ UNCHANGED <<cfg, packager, certCache>>
         ELSE
           /\ cfg' = [accepted |-> TRUE, config |-> rc.config]
           /\ IF Len(startup.certPem) = 0 \/ startup.keyPem = ""
              THEN pc' = "exited" /\ UNCHANGED <<packager, certCache>>
              ELSE
                Let(newPackager(startup.certPem[1], startup.keyPem,
                                rc.config.PackagerBase, rc.config.URLSet), LAMBDA np :
                Let(newCertCache(startup.certPem[1], startup.certPem), LAMBDA cc :
                  IF np.err \/ cc.err
                  THEN pc' = "exited" /\ UNCHANGED <<packager, certCache>>
                  ELSE /\ pc' = "idle"
                       /\ packager' = np.packager
                       /\ certCache' = [certName |-> cc.certName,
                                        certMessage |-> cc.certMessage])))
  /\ UNCHANGED <<startup, doc, crt, call, ret>>

\* ------------------------------------------------------------------------
\* Packager.ServeHTTP, one operator per stage of the handler, last stage
\* first.  Each stage either returns or goes on to the next one.
\* ------------------------------------------------------------------------

Step(r, name) == [r EXCEPT !.events = Append(@, name)]

\* A variant of the return of the handler with no deferred Body.Close.
ReturnNoClose(r) ==
  /\ doc' = r
  /\ pc' = "responded"
  /\ UNCHANGED <<startup, cfg, packager, certCache, crt, call, ret>>

\* The handler returns: the deferred Body.Close runs, the reply stands.
Return(r) ==
  /\ doc' = IF r.deferClose
            THEN [r EXCEPT !.closes = @ + 1, !.events = Append(@, "Body.Close")]
            ELSE r
  /\ pc' = "responded"
  /\ UNCHANGED <<startup, cfg, packager, certCache, crt, call, ret>>

\* signedexchange.WriteExchangeFile stands as a text that starts with the
\* format's magic.
ExchangeMagic == "sxg1-b0"

ExchangeFile(e) == ExchangeMagic \o " " \o UrlString(e.requestUri)

\* Lines 405-409: the Content-Type is set and the buffer written.  A failed
\* Write is logged and nothing of it reaches the client.
ServeWrite(r, bytes) ==
  \E writeErr \in BOOLEAN :
    Let(HeaderSet(r.resp, "Content-Type", "application/signed-exchange;v=b0"), LAMBDA w1 :
      Return([Step(r, "Write") EXCEPT
                !.resp = IF writeErr THEN Called(WriteHeader(w1, StatusOK), "Write")
                         ELSE Write(w1, bytes),
                !.written = bytes,
                !.lib.write = IF writeErr THEN "err" ELSE "ok"]))

\* Lines 396-399: on an error of WriteExchangeFile the reply is made and the
\* handler goes on; the buffer then holds what was written before the error.
ServeSerialize(r) ==
  \E failed \in BOOLEAN : \E n \in {0, Len(ExchangeMagic)} :
    Let(Step(r, "WriteExchangeFile"), LAMBDA r1 :
    Let(ExchangeFile(r.exchange), LAMBDA file :
      ServeWrite(IF failed
                 THEN [r1 EXCEPT !.lib.serialize = "err",
                         !.resp = LogAndRespond(newHttpError(StatusInternalServerError,
                                                             "Error serializing exchange"), @)]
                 ELSE [r1 EXCEPT !.lib.serialize = "ok"],
                 IF failed THEN Sub(file, 1, n) ELSE file)))

\* Lines 372-394: the cert URL, the signer with its two readings of the
\* clock (the second not before the first), and the signature.
ServeSign(r) ==
  Let(genCertUrl(packager, packager.cert), LAMBDA cu :
  Let(Step(r, "genCertUrl"), LAMBDA r1 :
    IF cu.err THEN
      Return([r1 EXCEPT !.resp = LogAndRespond(newHttpError(StatusInternalServerError,
                                                            "Error building cert URL"), @)])
    ELSE
      \E t1 \in ClockReadings : \E t2 \in {t \in ClockReadings : t >= t1} :
      \E failed \in BOOLEAN :
        Let([Step(r1, "AddSignatureHeader") EXCEPT
               !.signer = [set |-> TRUE, Date |-> t1 - 24 * MsPerHour,
                           Expires |-> t2 + 6 * 24 * MsPerHour,
                           CertUrl |-> UrlString(cu.url),
                           ValidityUrl |-> UrlString(packager.validityUrl)]], LAMBDA r2 :
          IF failed THEN
            Return([r2 EXCEPT !.lib.sign = "err",
                      !.resp = LogAndRespond(newHttpError(StatusInternalServerError,
                                                          "Error signing exchange"), @)])
          ELSE ServeSerialize([r2 EXCEPT !.lib.sign = "ok", !.exchange.signed = TRUE]))))

\* Lines 361-371: the body is read up to maxBodyLength and the exchange built.
ServeBuild(r) ==
  \E readErr \in BOOLEAN :
    Let(Step(r, "ReadAll"), LAMBDA r1 :
      IF readErr THEN
        Return([r1 EXCEPT !.lib.read = "err",
                  !.resp = HttpError(@, "502 bad gateway", StatusBadGateway)])
      ELSE
        \E buildErr \in BOOLEAN :
          Let([Step(r1, "NewExchange") EXCEPT !.lib.read = "ok"], LAMBDA r2 :
            IF buildErr THEN
              Return([r2 EXCEPT !.lib.build = "err",
                        !.resp = LogAndRespond(newHttpError(StatusInternalServerError,
                                                            "Error building exchange"), @)])
            ELSE
              ServeSign([r2 EXCEPT
                           !.lib.build = "ok",
                           !.exchange = [built |-> TRUE, requestUri |-> r.signUrl,
                                         status |-> r.upstream.StatusCode, header |-> r.Header,
                                         payloadLen |-> IF r.upstream.bodyLen > maxBodyLength
                                                        THEN maxBodyLength
                                                        ELSE r.upstream.bodyLen,
                                         miRecordSize |-> miRecordSize, signed |-> FALSE]])))

\* Lines 351-357: the loop over the stateful headers.
ServeSanitize(r) ==
  \E order \in HeaderOrders :
    Let(Sanitize(r.Header, order, r.errorOnStatefulHeaders), LAMBDA s :
    Let([Step(r, "sanitize") EXCEPT !.order = order, !.Header = s.Header], LAMBDA r1 :
      IF s.err THEN
        Return([r1 EXCEPT !.resp = LogAndRespond(newHttpError(StatusBadGateway,
                                         "Fetch response contains stateful header"), @)])
      ELSE ServeBuild([r1 EXCEPT !.sanitized = TRUE])))

\* Lines 343-346.
ServeValidate(r) ==
  Let(validateFetch([StatusCode |-> r.upstream.StatusCode, Header |-> r.Header]), LAMBDA e :
  Let(Step(r, "validateFetch"), LAMBDA r1 :
    IF ~e.nil THEN Return([r1 EXCEPT !.resp = LogAndRespond(e, @)])
    ELSE ServeSanitize(r1)))

\* Lines 332-341, with fetchUrl: http.NewRequest parses the text that
\* parseUrl parsed, then the client comes back with a response (its header
\* keys canonical) or a transport error; the close of the body is deferred.
ServeFetch(r) ==
  Let(Step(r, "fetchUrl"), LAMBDA r1 :
    IF UrlParse(r.fetch).err THEN
      Return([r1 EXCEPT !.resp = LogAndRespond(newHttpError(StatusInternalServerError,
                                                            "Error building request"), @)])
    ELSE
      \E up \in UpstreamPool :
        IF up.transportErr THEN
          Return([r1 EXCEPT
                    !.upstream = up,
                    !.resp = LogAndRespond(newHttpError(StatusBadGateway, "Error fetching"), @)])
        ELSE ServeValidate([r1 EXCEPT !.fetched = TRUE, !.upstream = up,
                              !.Header = ReadMIMEHeader(up.lines), !.deferClose = TRUE]))

\* Packager.ServeHTTP (lines 319-330 and, through the stages, to 410).
PackagerServeHTTP ==
  /\ pc = "idle"
  /\ \E fetch \in FetchValues : \E sign \in SignValues :
       Let(parseUrls(fetch, sign, packager.urlSets), LAMBDA pu :
       Let(Step(NewRequest(fetch, sign), "parseUrls"), LAMBDA r0 :
         IF ~pu.err.nil THEN Return([r0 EXCEPT !.resp = LogAndRespond(pu.err, @)])
         ELSE ServeFetch([r0 EXCEPT !.matched = TRUE, !.signUrl = pu.signUrl,
                            !.errorOnStatefulHeaders = pu.errorOnStatefulHeaders])))

\* ------------------------------------------------------------------------
\* CertCache.ServeHTTP
\* ------------------------------------------------------------------------

\* The pattern the mux routes to the CertCache (main, line 594).
CertPrefixPath == PathJoin(<<"/", certUrlPrefix>>) \o "/"

\* The paths the mux hands to the CertCache: all start with the prefix.
CertPaths(name) ==
  Let(CertPrefixPath, LAMBDA prefix :
    {prefix \o name, prefix \o "wrong", prefix,
     prefix \o name \o "/", prefix \o name \o "x",
     prefix \o Sub(name, 1, Len(name) - 1),
     prefix \o "x/../" \o name, prefix \o ToLower(name)})

CertCacheServeHTTP ==
  /\ pc = "idle"
  /\ \E path \in CertPaths(certCache.certName) :
     \E inm \in {"", "\"" \o certCache.certName \o "\"", "\"other\""} :
     \E range \in {"", "bytes=0-0"} :
       LET req == [Path |-> path, IfNoneMatch |-> inm, Range |-> range] IN
       crt' = [active |-> TRUE, req |-> req,
               resp |-> CertCacheServe(certCache, NewResponseWriter, req)]
  /\ pc' = "responded"
  /\ UNCHANGED <<startup, cfg, packager, certCache, doc, call, ret>>

\* The request is over: its transient objects are discarded.
EndRequest ==
  /\ pc = "responded"
  /\ pc' = "idle"
  /\ doc' = NoDoc
  /\ crt' = NoCrt
  /\ UNCHANGED <<startup, cfg, packager, certCache, call, ret>>

Init ==
  /\ pc = "start"
  /\ startup \in StartupInputs
  /\ cfg = NoConfig
  /\ packager = NoPackager
  /\ certCache = NoCertCache
  /\ doc = NoDoc
  /\ crt = NoCrt
  /\ call = NoCall
  /\ ret = NoRet

Next == main \/ PackagerServeHTTP \/ CertCacheServeHTTP \/ EndRequest

Spec == Init /\ [][Next]_vars

\* ------------------------------------------------------------------------
\* The matcher on its own: one call of urlMatches or of parseUrls, on
\* arguments drawn from the pools below.  The URLs are what parseUrl returns
\* and the patterns what readConfig leaves behind.
\* ------------------------------------------------------------------------

MatchUrlValues ==
  {"https://amp.example/foo", "https://amp.example/foobar", "https://amp.example/a",
   "http://amp.example/foo", "ftp://amp.example/foo", "https://u@amp.example/foo",
   "https:amp.example/foo", "https://other.example/foo", "https://AMP.example/foo",
   "https://amp.example/foo?x=1", "https://amp.example/foo?x=12",
   "https://amp.example/a%2Fb", "https://amp.example/b"}

RawPatterns ==
  [Scheme : {<<>>, <<"https">>}, Domain : {"amp.example"},
   PathRE : {NilStr, Ptr("/foo"), Ptr("foo"), Ptr("/a|/foo"), Ptr("\\Q/foo")},
   PathExcludeRE : {<<>>, <<"/foo">>, <<"/a.*", "/b">>, <<"\\Q/foo">>},
   QueryRE : {NilStr, Ptr("x=1"), Ptr("")},
   ErrorOnStatefulHeaders : {FALSE}]

MatchPatterns ==
  {validateURLPattern(p, allowedFetchSchemes, <<"http", "https">>).pattern :
     p \in {q \in RawPatterns : ~validateURLPattern(q, allowedFetchSchemes, <<"http", "https">>).err}}

MatchCalls ==
  {[NoCall EXCEPT !.fn = "urlMatches", !.raw = raw, !.url = parseUrl(raw, "fetch").url,
                  !.pattern = p] : raw \in MatchUrlValues, p \in MatchPatterns}

SignOther == Pattern(<<"https">>, "other.example", NilStr, <<>>, NilStr, FALSE)

FetchElsewhere == Pattern(<<"https">>, "cdn.example", NilStr, <<>>, NilStr, TRUE)

\* Four URLSets that readConfig accepts, as it leaves them.
MatchSets ==
  {validateURLSet(s, <<"http", "https">>).set :
     s \in {[Fetch |-> FetchStrict, Sign |-> SignHttps],
            [Fetch |-> FetchLoose, Sign |-> SignDefault],
            [Fetch |-> FetchStrict, Sign |-> SignOther],
            [Fetch |-> FetchElsewhere, Sign |-> SignHttps]}}

ParseCalls ==
  {[NoCall EXCEPT !.fn = "parseUrls", !.fetch = fetch, !.sign = sign, !.urlSets = sets] :
     fetch \in FetchValues, sign \in SignValues,
     sets \in UNION {[1..n -> MatchSets] : n \in 0..MaxURLSets}}

InitMatch ==
  /\ pc = "call"
  /\ call \in MatchCalls \cup ParseCalls
  /\ ret = NoRet
  /\ startup = Startup(RawConfig(OneSet))
  /\ cfg = NoConfig
  /\ packager = NoPackager
  /\ certCache = NoCertCache
  /\ doc = NoDoc
  /\ crt = NoCrt

CallUrlMatches ==
  /\ pc = "call"
  /\ call.fn = "urlMatches"
  /\ ret' = [NoRet EXCEPT !.matches = urlMatches(call.url, call.pattern)]
  /\ pc' = "returned"
  /\ UNCHANGED <<startup, cfg, packager, certCache, doc, crt, call>>

CallParseUrls ==
  /\ pc = "call"
  /\ call.fn = "parseUrls"
  /\ Let(parseUrls(call.fetch, call.sign, call.urlSets), LAMBDA pu :
       ret' = [NoRet EXCEPT !.signUrl = pu.signUrl,
                            !.errorOnStatefulHeaders = pu.errorOnStatefulHeaders,
                            !.err = pu.err])
  /\ pc' = "returned"
  /\ UNCHANGED <<startup, cfg, packager, certCache, doc, crt, call>>

NextMatch == CallUrlMatches \/ CallParseUrls

SpecMatch == InitMatch /\ [][NextMatch]_vars

\* ------------------------------------------------------------------------
\* Properties
\* ------------------------------------------------------------------------

\* A packaging request has been answered and its objects are still there.
Responded == pc = "responded" /\ doc.active

Reached(name) == \E i \in 1..Len(doc.events) : doc.events[i] = name

\* raw is a non-empty text that parses as an absolute URL.
AbsoluteUrl(raw) == raw # "" /\ Let(UrlParse(raw), LAMBDA p : ~p.err /\ p.url.Scheme # "")

\* Some URLSet of the Packager matches the fetch URL with its Fetch pattern
\* and the sign URL with its Sign pattern.
SomeSetMatches(fetch, sign) ==
  \E i \in 1..Len(packager.urlSets) :
    /\ urlMatches(UrlParse(fetch).url, packager.urlSets[i].Fetch)
    /\ urlMatches(UrlParse(sign).url, packager.urlSets[i].Sign)

\* The cacheability check of the upstream response gives no reason and no error.
Cacheable(up) ==
  Let(CachableResponse(ReadMIMEHeader(up.lines)), LAMBDA c : ~c.err /\ c.reasons = {})

\* A header name is one of the ten, letter case aside.
StatefulLower == {ToLower(h) : h \in statefulResponseHeaders}

IsStateful(name) == ToLower(name) \in StatefulLower

\* Some header line of the response carries one of the ten names.
StatefulPresent(lines) == \E i \in 1..Len(lines) : IsStateful(lines[i][1])

\* One of the ten names is there and the first line of that name has a
\* value that is not empty.
StatefulNonEmpty(lines) ==
  \E i \in 1..Len(lines) :
    /\ IsStateful(lines[i][1])
    /\ lines[i][2] # ""
    /\ \A j \in 1..(i - 1) : ToLower(lines[j][1]) # ToLower(lines[i][1])

SignedExchangeType == "application/signed-exchange;v=b0"

\* An exchange was built or signed, or bytes of one went to the client.
ExchangeMade ==
  \/ doc.exchange.built
  \/ doc.exchange.signed
  \/ doc.signer.set
  \/ doc.lib.write # ""
  \/ doc.resp.sent["Content-Type"] = SignedExchangeType

\* The body http.Error writes for a status: the external message as a line.
ErrorBody(code) == ExternalMsg(newHttpError(code, "")) \o "\n"

\* C1: an exchange is built, signed or written to the client only if both
\* URLs parsed as non-empty absolute URLs and matched one URLSet, the fetch
\* came back without a transport error, with status 200, and the
\* cacheability check returned neither a reason nor an error.
C1_ExchangeOnlyAfterChecks ==
  (doc.active /\ ExchangeMade) =>
    /\ AbsoluteUrl(doc.fetch)
    /\ AbsoluteUrl(doc.sign)
    /\ SomeSetMatches(doc.fetch, doc.sign)
    /\ doc.fetched
    /\ ~doc.upstream.transportErr
    /\ doc.upstream.StatusCode = 200
    /\ Cacheable(doc.upstream)

\* C1, its case: a request went through every stage and the signed exchange
\* is the body of a 200 reply.
C1_ExchangeWritten ==
  /\ Responded
  /\ doc.exchange.signed
  /\ doc.lib.write = "ok"
  /\ doc.resp.status = 200
  /\ doc.resp.sent["Content-Type"] = SignedExchangeType
  /\ doc.resp.body = ExchangeFile(doc.exchange)

\* A stage of the request failed: a library call came back with an error or
\* the handler made an error reply.
RequestFailed ==
  \/ \E i \in 1..Len(doc.resp.calls) : doc.resp.calls[i] = "Error"
  \/ doc.lib.read = "err"
  \/ doc.lib.build = "err"
  \/ doc.lib.sign = "err"
  \/ doc.lib.serialize = "err"

\* C2: a request that fails at any stage, the serialization of the exchange
\* included, gets exactly one reply, whose whole body is the canonical
\* message of its status; the handler writes nothing after it: no bytes of an
\* exchange, no Content-Type of a signed exchange.
C2_OneErrorResponse ==
  (Responded /\ RequestFailed) =>
    /\ doc.resp.calls = <<"Error">>
    /\ doc.resp.body = ErrorBody(doc.resp.status)
    /\ doc.resp.header["Content-Type"] # SignedExchangeType
    /\ doc.resp.sent["Content-Type"] # SignedExchangeType

\* The status of the first stage that fails, 0 when none does, read off what
\* the request met on its way.
FirstFailure ==
  IF ~(AbsoluteUrl(doc.fetch) /\ AbsoluteUrl(doc.sign) /\ SomeSetMatches(doc.fetch, doc.sign))
  THEN 400
  ELSE IF doc.upstream.transportErr \/ doc.upstream.StatusCode # 200 \/ ~Cacheable(doc.upstream)
  THEN 502
  ELSE IF doc.errorOnStatefulHeaders /\ StatefulNonEmpty(doc.upstream.lines) THEN 502
  ELSE IF doc.lib.read = "err" THEN 502
  ELSE IF doc.lib.build = "err" \/ (doc.lib.build = "ok" /\ ~doc.signer.set)
          \/ doc.lib.sign = "err" \/ doc.lib.serialize = "err"
  THEN 500
  ELSE 0

\* C3: the status is that of the first failing stage: 400 with "400 bad
\* request" for a URL that is empty, unparsable, relative or unmatched; 502
\* with "502 bad gateway" for a failed fetch, a status other than 200, a
\* response that is not cacheable, a stateful header in strict mode or a
\* failed read of the body; 500 with "500 internal server error" for a failed
\* build, cert URL, signature or serialization.  No other error status
\* occurs, and the external message of any other code is empty.
C3_StatusOfFirstFailure ==
  /\ Responded =>
       /\ doc.resp.status \in {200, 400, 500, 502}
       /\ IF FirstFailure = 0 THEN doc.resp.status = 200
          ELSE doc.resp.status = FirstFailure /\ doc.resp.body = ErrorBody(FirstFailure)
  /\ \A code \in (100..599) \ {400, 500, 502} : ExternalMsg(newHttpError(code, "")) = ""

\* C4: the signer's Expires minus its Date, in the seconds the signature
\* carries, is at most 604800, whatever the two readings of the clock.
C4_ValidityWindow ==
  (doc.active /\ doc.signer.set) =>
    Unix(doc.signer.Expires) - Unix(doc.signer.Date) <= 7 * 24 * 3600

C6_SanitizedHeaders ==
  (doc.active /\ doc.sanitized) =>
    Let(ReadMIMEHeader(doc.upstream.lines), LAMBDA original :
      /\ \A k \in DOMAIN doc.Header : ~IsStateful(k)
      /\ doc.Header = [k \in {x \in DOMAIN original : ~IsStateful(x)} |-> original[k]]
      /\ doc.order \in HeaderOrders
      /\ doc.exchange.built => doc.exchange.header = doc.Header)

\* C6, its case: a response with a stateful header and another one went
\* through the loop in lenient mode, in an order other than the source's,
\* and the exchange was built.
C6_HeaderRemovedOtherKept ==
  /\ Responded
  /\ doc.sanitized
  /\ ~doc.errorOnStatefulHeaders
  /\ StatefulNonEmpty(doc.upstream.lines)
  /\ doc.order # SourceOrder
  /\ doc.exchange.built
  /\ "X-Other" \in DOMAIN doc.exchange.header

\* C7: urlMatches is true exactly when the scheme is one of the pattern's,
\* Opaque is empty, there is no User, Host equals Domain, PathRE matches
\* the whole escaped path, no PathExcludeRE matches the whole of it, and
\* QueryRE matches the whole raw query; "foo" does not match "foobar".
C7_UrlMatchesIff ==
  /\ ~regexpFullMatch("foo", "foobar")
  /\ (pc = "returned" /\ call.fn = "urlMatches") =>
       Let(EscapedPath(call.url), LAMBDA escapedPath :
         ret.matches <=>
           /\ \E i \in 1..Len(call.pattern.Scheme) : call.url.Scheme = call.pattern.Scheme[i]
           /\ call.url.Opaque = ""
           /\ ~call.url.User.present
           /\ call.url.Host = call.pattern.Domain
           /\ WholeMatch(call.pattern.PathRE.v, escapedPath)
           /\ \A i \in 1..Len(call.pattern.PathExcludeRE) :
                ~WholeMatch(call.pattern.PathExcludeRE[i], escapedPath)
           /\ WholeMatch(call.pattern.QueryRE.v, call.url.RawQuery))

\* The URLSets of the call that match both URLs, each with its own two patterns.
MatchingSets ==
  {i \in 1..Len(call.urlSets) :
     /\ urlMatches(UrlParse(call.fetch).url, call.urlSets[i].Fetch)
     /\ urlMatches(UrlParse(call.sign).url, call.urlSets[i].Sign)}

\* C8: parseUrls returns at the first URLSet, in the order of the
\* configuration, whose Fetch pattern matches the fetch URL and whose Sign
\* pattern matches the sign URL; the strictness flag is that set's
\* Fetch.ErrorOnStatefulHeaders; when no set matches both, the error is a 400
\* and no sign URL is returned.
C8_FirstMatchingSet ==
  (pc = "returned" /\ call.fn = "parseUrls"
   /\ AbsoluteUrl(call.fetch) /\ AbsoluteUrl(call.sign)) =>
    IF MatchingSets = {} THEN
      /\ ~ret.err.nil
      /\ ret.err.StatusCode = 400
      /\ ret.signUrl = EmptyURL
    ELSE
      /\ ret.err.nil
      /\ ret.signUrl = UrlParse(call.sign).url
      /\ \E i \in MatchingSets :
           /\ \A j \in MatchingSets : i <= j
           /\ ret.errorOnStatefulHeaders = call.urlSets[i].Fetch.ErrorOnStatefulHeaders

\* C8, its case: two sets match both URLs, their flags differ, and the
\* flag returned is the first set's.
C8_FirstOfTwoMatching ==
  /\ pc = "returned"
  /\ call.fn = "parseUrls"
  /\ MatchingSets = {1, 2}
  /\ call.urlSets[1].Fetch.ErrorOnStatefulHeaders # call.urlSets[2].Fetch.ErrorOnStatefulHeaders
  /\ ret.err.nil
  /\ ret.errorOnStatefulHeaders = call.urlSets[1].Fetch.ErrorOnStatefulHeaders

\* C9: the CertCache serves its CertMessage exactly when the path is
\* /amppkg/cert/<CertName>, with the quoted CertName as ETag, and answers
\* 404 on every other path; CertName is the url-safe base64 of the SHA-256
\* of the leaf's DER bytes; serving leaves CertName and CertMessage as
\* they were built.
C9_CertServedOnExactPath ==
  /\ pc \in {"idle", "responded"} =>
       /\ certCache.certName = EncodeToString(EncodeURL, Sum256(startup.certPem[1]))
       /\ \A i \in 1..Len(certCache.certName) : Ch(certCache.certName, i) \notin {"+", "/"}
       /\ certCache.certMessage = newCertCache(startup.certPem[1], startup.certPem).certMessage
  /\ (pc = "responded" /\ crt.active) =>
       IF crt.req.Path = "/amppkg/cert/" \o certCache.certName THEN
         /\ crt.resp.sent["ETag"] = "\"" \o Sub(crt.req.Path, Len("/amppkg/cert/") + 1, Len(crt.req.Path)) \o "\""
         /\ crt.resp.status \in {200, 206, 304}
         /\ crt.resp.status = 200 => crt.resp.body = certCache.certMessage
         /\ (crt.req.IfNoneMatch = "" /\ crt.req.Range = "") => crt.resp.status = 200
       ELSE
         /\ crt.resp.status = 404
         /\ crt.resp.sent["ETag"] = ""
         /\ crt.resp.body = "404 page not found\n"

\* C9, its case: a plain request for the exact path got the whole message.
C9_CertServed ==
  /\ pc = "responded"
  /\ crt.active
  /\ crt.req.Path = "/amppkg/cert/" \o certCache.certName
  /\ crt.req.IfNoneMatch = ""
  /\ crt.req.Range = ""
  /\ crt.resp.status = 200
  /\ crt.resp.body = certCache.certMessage
  /\ certCache.certMessage # ""

\* The configuration file breaks one of the four rules on its URLSets.
RawConfigViolates ==
  \/ Len(startup.config.URLSet) = 0
  \/ \E i \in 1..Len(startup.config.URLSet) :
       Let(startup.config.URLSet[i], LAMBDA set :
         \/ \E k \in 1..Len(set.Fetch.Scheme) : set.Fetch.Scheme[k] \notin {"http", "https"}
         \/ \E k \in 1..Len(set.Sign.Scheme) : set.Sign.Scheme[k] # "https"
         \/ set.Sign.ErrorOnStatefulHeaders)

\* C10: in an accepted configuration the URLSet is not empty, every Fetch
\* Scheme is a non-empty list within {http, https}, every Sign Scheme a
\* non-empty list within {https}, no Sign pattern is strict, and
\* PackagerBase ends with "/"; a file that breaks one of the first four is
\* rejected; a request whose sign URL has a scheme other than https gets 400.
C10_AcceptedConfig ==
  /\ cfg.accepted =>
       /\ Len(cfg.config.URLSet) > 0
       /\ \A i \in 1..Len(cfg.config.URLSet) :
            Let(cfg.config.URLSet[i], LAMBDA set :
              /\ Len(set.Fetch.Scheme) > 0
              /\ \A k \in 1..Len(set.Fetch.Scheme) : set.Fetch.Scheme[k] \in {"http", "https"}
              /\ Len(set.Sign.Scheme) > 0
              /\ \A k \in 1..Len(set.Sign.Scheme) : set.Sign.Scheme[k] = "https"
              /\ ~set.Sign.ErrorOnStatefulHeaders)
       /\ HasSuffix(cfg.config.PackagerBase, "/")
       /\ (packager.urlSets = cfg.config.URLSet \/ pc = "exited")
  /\ (pc # "start" /\ RawConfigViolates) => ~cfg.accepted
  /\ (Responded /\ UrlParse(doc.sign).url.Scheme # "https") => doc.resp.status = 400

\* C10, its case: a file whose Sign pattern names no scheme was accepted
\* with the scheme set to https, and a request to sign an http URL got 400.
C10_HttpSignUrlRefused ==
  /\ Responded
  /\ cfg.accepted
  /\ \E i \in 1..Len(cfg.config.URLSet) :
       /\ startup.config.URLSet[i].Sign.Scheme = <<>>
       /\ cfg.config.URLSet[i].Sign.Scheme = <<"https">>
  /\ doc.sign = "http://example.com/a"
  /\ AbsoluteUrl(doc.fetch)
  /\ doc.resp.status = 400

\* The steps of the handler, in the order of the source.
HandlerSteps ==
  <<"parseUrls", "fetchUrl", "validateFetch", "sanitize", "ReadAll", "NewExchange",
    "genCertUrl", "AddSignatureHeader", "WriteExchangeFile", "Write", "Body.Close">>

\* The positions of a step among the events of the request.
EventPositions(name) == {i \in 1..Len(doc.events) : doc.events[i] = name}

\* step a happened, once, and before every occurrence of step b.
Before(a, b) ==
  /\ Cardinality(EventPositions(a)) = 1
  /\ \A i \in EventPositions(a) : \A j \in EventPositions(b) : i < j

\* C11: the body of the upstream response is closed exactly once when the
\* fetch succeeded, on every way out of the handler after the fetch, and
\* not at all when the request failed before or during the fetch; the steps
\* come in the order fetch, validate, sanitize, read, build, the
\* sanitization being complete before the body is read; no fetch is issued
\* for URLs that failed the policy match.
C11_BodyClosedOnceInOrder ==
  Responded =>
    \* doc.matched: parseUrls returned without error, the policy match passed.
    Let(doc.matched, LAMBDA policyOk :
      /\ \A k \in 1..Len(HandlerSteps) : Cardinality(EventPositions(HandlerSteps[k])) <= 1
      /\ IF policyOk /\ ~doc.upstream.transportErr
         THEN /\ doc.closes = 1
              /\ Cardinality(EventPositions("Body.Close")) = 1
              /\ doc.events[Len(doc.events)] = "Body.Close"
              /\ Before("fetchUrl", "Body.Close")
         ELSE /\ doc.closes = 0
              /\ EventPositions("Body.Close") = {}
      /\ ~policyOk => (~Reached("fetchUrl") /\ doc.upstream = NoUpstream)
      /\ Reached("fetchUrl") => Before("parseUrls", "fetchUrl")
      /\ Reached("validateFetch") => Before("fetchUrl", "validateFetch")
      /\ Reached("sanitize") => Before("validateFetch", "sanitize")
      /\ Reached("ReadAll") =>
           /\ Before("sanitize", "ReadAll")
           /\ doc.sanitized
           /\ \A h \in DOMAIN doc.Header : ~IsStateful(h)
      /\ Reached("NewExchange") => Before("ReadAll", "NewExchange"))

\* C11, its case: the serialization failed after the fetch, the handler
\* went through all its steps, and the body was closed once, at the end.
C11_ClosedAfterLateFailure ==
  /\ Responded
  /\ doc.lib.serialize = "err"
  /\ doc.events = HandlerSteps
  /\ doc.closes = 1

====
